---- MODULE Spec2Model ----
(***************************************************************************)
(* Model of the scan orchestrator of app/main.py: the SCAN_STATE registry, *)
(* the run_pipeline worker thread, run_dast's per-target build / launch /  *)
(* probe / scan / teardown loop, the cancel and status handlers, and the   *)
(* Docker daemon the program talks to.                                     *)
(***************************************************************************)
EXTENDS Integers, Sequences, FiniteSets, TLC

\* ------------------------------------------------------------------ bounds
\* Largest number of Dockerfile directories detect_all_targets finds.
MaxTargets == 2

\* ------------------------------------------------------- program constants
\* range(30): probe attempts of run_dast's readiness loop.
ProbeAttempts == 30
\* The value of "score" before it is computed (None in the source).
NoScore == -1

COMMON_WEB_PORTS == <<80, 8000, 5000, 3000>>

\* Session identifiers (uuid4 strings in the source).
ScanIds == {"s1"}

Steps == <<"bandit", "gitleaks", "trivy", "dast">>
StepNames == {Steps[i] : i \in 1..Len(Steps)}
StaticSteps == {"bandit", "gitleaks", "trivy"}
Targets == 1..MaxTargets

\* ------------------------------------------------------------------ values
None == [type |-> "None"]

\* A JSON document a tool returns: the keys compute_security_score reads.
Doc(results, matches, site) ==
    [type |-> "dict", results |-> results, Matches |-> matches, site |-> site]
\* {}: the document of a tool that printed nothing.
EmptyDoc == Doc(<<>>, <<>>, <<>>)

\* The documents the static tools print: here one finding of high severity
\* from bandit, nothing from the other two.
BanditOutputs == {Doc(<<"HIGH">>, <<>>, <<>>)}
GitleaksOutputs == {EmptyDoc}
TrivyOutputs == {EmptyDoc}

StaticOutputs(name) ==
    CASE name = "bandit" -> BanditOutputs
      [] name = "gitleaks" -> GitleaksOutputs
      [] OTHER -> TrivyOutputs

VARIABLES
    SCAN_STATE,   \* the registry: scan id -> session record
    pc,           \* position of each session's run_pipeline thread
    name,         \* run_step's parameter: the step the thread is in
    dast,         \* run_dast's local variables
    cleanup_i,    \* position of the worker's cleanup_scan loop
    docker,       \* the Docker daemon: containers and images by name
    calls,        \* calls the program has made to the Docker daemon
    cancel_pc,    \* position of an in-flight cancel handler
    cancel_loc    \* the cancel handler's local variables

vars == <<SCAN_STATE, pc, name, dast, cleanup_i, docker, calls,
          cancel_pc, cancel_loc>>

\* --------------------------------------------------------------- init_scan
InitSteps ==
    [n \in StepNames |->
        [status |-> "pending", start_time |-> "None", duration |-> "None",
         result |-> None]]

init_scan ==
    [current |-> "waiting", progress |-> 0, containers |-> <<>>,
     cancelled |-> FALSE, score |-> NoScore, end_time |-> "None",
     total_duration |-> "None", steps |-> InitSteps]

\* results[label] before the iteration of that target assigns it.
Unset == [kind |-> "unset"]

\* run_dast's locals; container = 0 is the unbound name `container`.
DastLocals ==
    [targets |-> 0, idx |-> 0, container |-> 0, exposed |-> "unset",
     detected_port |-> 0, attempt |-> 0, results |-> [t \in Targets |-> Unset]]

DockerEmpty ==
    [containers |-> [t \in Targets |-> "absent"],
     images |-> [t \in Targets |-> "absent"],
     zap |-> [t \in Targets |-> "absent"]]

NoCalls ==
    [ctr_rm |-> [t \in Targets |-> 0], img_rm |-> [t \in Targets |-> 0],
     zap_run |-> [t \in Targets |-> 0]]

\* One cancel call: i, the list position of its cleanup_scan loop; n, the
\* number of handles the session tracked when it was invoked; tried, the
\* handles it has called remove(force=True) for.
CancelIdle == [i |-> 0, n |-> 0, tried |-> {}]

Init ==
    /\ SCAN_STATE = <<>>
    /\ pc = [id \in ScanIds |-> "none"]
    /\ name = [id \in ScanIds |-> "none"]
    /\ dast = [id \in ScanIds |-> DastLocals]
    /\ cleanup_i = [id \in ScanIds |-> 0]
    /\ docker = [id \in ScanIds |-> DockerEmpty]
    /\ calls = [id \in ScanIds |-> NoCalls]
    /\ cancel_pc = [id \in ScanIds |-> "idle"]
    /\ cancel_loc = [id \in ScanIds |-> CancelIdle]

Known(id) == id \in DOMAIN SCAN_STATE

\* The assignment as it would act if every session held the same dict object.
SetFieldShared(id, field, value) ==
    [s \in DOMAIN SCAN_STATE |-> [SCAN_STATE[s] EXCEPT ![field] = value]]

\* SCAN_STATE[id][field] = value
SetField(id, field, value) ==
    [s \in DOMAIN SCAN_STATE |->
        IF s = id THEN [SCAN_STATE[s] EXCEPT ![field] = value] ELSE SCAN_STATE[s]]

\* SCAN_STATE[id]["steps"][n].update(upd)
SetStep(id, n, rec) ==
    [s \in DOMAIN SCAN_STATE |->
        IF s = id THEN [SCAN_STATE[s] EXCEPT !.steps[n] = rec] ELSE SCAN_STATE[s]]

\* ------------------------------------------------------------------ scoring
\* Which of "high", "medium", "low" occur in str(sev).lower(), for the
\* severity texts of bandit / trivy ("HIGH") and the riskdesc texts of ZAP
\* ("Low (High)": risk Low, confidence High). "" is a finding without a
\* severity key.
Words(sev) ==
    CASE sev \in {"HIGH", "high"} -> {"high"}
      [] sev \in {"MEDIUM", "medium"} -> {"medium"}
      [] sev \in {"LOW", "low"} -> {"low"}
      [] sev = "High (Medium)" -> {"high", "medium"}
      [] sev = "Medium (Low)" -> {"medium", "low"}
      [] sev = "Low (High)" -> {"low", "high"}
      [] OTHER -> {}

\* if "high" in sev: ... elif "medium" in sev: ... elif "low" in sev: ...
Bucket(sev) ==
    IF "high" \in Words(sev) THEN "high"
    ELSE IF "medium" \in Words(sev) THEN "medium"
    ELSE IF "low" \in Words(sev) THEN "low"
    ELSE "none"

RECURSIVE CountBucket(_, _)
CountBucket(seq, b) ==
    IF seq = <<>> THEN 0
    ELSE (IF Bucket(Head(seq)) = b THEN 1 ELSE 0) + CountBucket(Tail(seq), b)

RECURSIVE Flatten(_)
Flatten(seqs) == IF seqs = <<>> THEN <<>> ELSE Head(seqs) \o Flatten(Tail(seqs))

\* The findings one step result contributes to bucket b.
ToolCount(result, b) ==
    \* run_dast's dict has only target_<n> (or "error") keys: no "results",
    \* "Matches" or "site" for the lookups to find.
    IF result = None \/ result = EmptyDoc \/ result.type # "dict" THEN 0
    ELSE CountBucket(IF result.results # <<>> THEN result.results ELSE result.Matches, b)
         + CountBucket(Flatten(result.site), b)

RECURSIVE SumTools(_, _, _)
SumTools(steps, names, b) ==
    IF names = {} THEN 0
    ELSE LET n == CHOOSE x \in names : TRUE
         IN ToolCount(steps[n].result, b) + SumTools(steps, names \ {n}, b)

Max(a, b) == IF a >= b THEN a ELSE b

\* The score as it would be without the clamp `max(..., 0)`.
compute_security_score_unclamped(results) ==
    LET high == SumTools(results, DOMAIN results, "high")
        medium == SumTools(results, DOMAIN results, "medium")
        low == SumTools(results, DOMAIN results, "low")
    IN 100 - (high * 10 + medium * 5 + low * 2)

compute_security_score(results) ==
    LET high == SumTools(results, DOMAIN results, "high")
        medium == SumTools(results, DOMAIN results, "medium")
        low == SumTools(results, DOMAIN results, "low")
    IN Max(100 - (high * 10 + medium * 5 + low * 2), 0)

\* ------------------------------------------------------------ Docker daemon
Exists(state) == state \in {"running", "exited"}

\* A target's container may exit by itself. Only the probing of a target can
\* tell a running container from an exited one, so exits are taken while the
\* target is being reloaded and probed.
ContainerExits(id) ==
    \E t \in Targets :
        /\ docker[id].containers[t] = "running"
        /\ t = dast[id].idx /\ pc[id] \in {"reload", "probe"}
        /\ docker' = [docker EXCEPT ![id].containers[t] = "exited"]
        /\ UNCHANGED <<SCAN_STATE, pc, name, dast, cleanup_i, calls,
                       cancel_pc, cancel_loc>>

\* ------------------------------------------------------------- cleanup_scan
\* One iteration of `for c in SCAN_STATE[scan_id]["containers"]` at list
\* position i: containers.get(c).remove(force=True), every error swallowed.
\* A forced removal of an existing container removes it; for a container
\* that is gone, get raises NotFound.
CleanupRemove(id, i) ==
    LET c == SCAN_STATE[id].containers[i]
    IN IF Exists(docker[id].containers[c])
       THEN docker' = [docker EXCEPT ![id].containers[c] = "removed"]
       ELSE docker' = docker

\* -------------------------------------------------------------- start_scan
start_scan(id) ==
    /\ ~Known(id)
    /\ SCAN_STATE' = [s \in DOMAIN SCAN_STATE \cup {id} |->
                        IF s = id THEN init_scan ELSE SCAN_STATE[s]]
    /\ pc' = [pc EXCEPT ![id] = "extract"]
    /\ UNCHANGED <<name, dast, cleanup_i, docker, calls, cancel_pc,
                   cancel_loc>>

\* ------------------------------------------------------------ run_pipeline
\* An exception nothing catches ends the worker thread where it stands.
Raised(id) == pc' = [pc EXCEPT ![id] = "raised"]

\* zipfile.ZipFile(zip_path).extractall: returns, or raises on a bad archive.
extract(id) ==
    /\ pc[id] = "extract"
    /\ \/ /\ pc' = [pc EXCEPT ![id] = "run_step"]
          /\ name' = [name EXCEPT ![id] = Steps[1]]
       \/ /\ Raised(id)
          /\ name' = name
    /\ UNCHANGED <<SCAN_STATE, dast, cleanup_i, docker, calls, cancel_pc,
                   cancel_loc>>

\* run_step up to the call of func: phase, status and start time.
run_step_begin(id) ==
    /\ pc[id] = "run_step"
    /\ SCAN_STATE' =
         [s \in DOMAIN SCAN_STATE |->
            IF s = id
            THEN [SCAN_STATE[s] EXCEPT
                    !.current = name[id],
                    !.steps[name[id]].status = "running",
                    !.steps[name[id]].start_time = "set"]
            ELSE SCAN_STATE[s]]
    /\ pc' = [pc EXCEPT ![id] = "exec"]
    /\ UNCHANGED <<name, dast, cleanup_i, docker, calls, cancel_pc,
                   cancel_loc>>

\* The update without its "status" key: the step stays "running".
StepDoneWithoutStatus(id, result) ==
    [SCAN_STATE[id].steps[name[id]] EXCEPT
        !.duration = "final", !.result = result]

\* The record run_step writes once func has returned.
StepDone(id, result) ==
    [SCAN_STATE[id].steps[name[id]] EXCEPT
        !.status = "done", !.duration = "final", !.result = result]

\* run_bandit / run_gitleaks / run_trivy return a document and run_step
\* records it, or they raise (a timeout, a non-zero exit, bad JSON) and the
\* exception leaves run_step and run_pipeline.
static_step(id) ==
    /\ pc[id] = "exec"
    /\ name[id] \in StaticSteps
    /\ \/ \E result \in StaticOutputs(name[id]) :
            /\ SCAN_STATE' = SetStep(id, name[id], StepDone(id, result))
            /\ pc' = [pc EXCEPT ![id] = "progress"]
       \/ /\ Raised(id)
          /\ SCAN_STATE' = SCAN_STATE
    /\ UNCHANGED <<name, dast, cleanup_i, docker, calls, cancel_pc,
                   cancel_loc>>

StepIndex(n) == CHOOSE i \in 1..Len(Steps) : Steps[i] = n

\* Checkpoint with the trivy assignment written as the bandit one.
CheckpointRepeated(n) == IF n = "trivy" THEN 25 ELSE 25 * StepIndex(n)

\* The checkpoint run_pipeline assigns after step n.
Checkpoint(n) == 25 * StepIndex(n)

set_progress(id) ==
    /\ pc[id] = "progress"
    /\ SCAN_STATE' = SetField(id, "progress", Checkpoint(name[id]))
    /\ IF StepIndex(name[id]) < Len(Steps)
       THEN /\ name' = [name EXCEPT ![id] = Steps[StepIndex(name[id]) + 1]]
            /\ pc' = [pc EXCEPT ![id] = "run_step"]
       ELSE /\ name' = name
            /\ pc' = [pc EXCEPT ![id] = "score"]
    /\ UNCHANGED <<dast, cleanup_i, docker, calls, cancel_pc, cancel_loc>>

set_score(id) ==
    /\ pc[id] = "score"
    /\ SCAN_STATE' = SetField(id, "score",
                              compute_security_score(SCAN_STATE[id].steps))
    /\ pc' = [pc EXCEPT ![id] = "end_time"]
    /\ UNCHANGED <<name, dast, cleanup_i, docker, calls, cancel_pc,
                   cancel_loc>>

set_end_time(id) ==
    /\ pc[id] = "end_time"
    /\ SCAN_STATE' =
         [s \in DOMAIN SCAN_STATE |->
            IF s = id
            THEN [SCAN_STATE[s] EXCEPT !.end_time = "set",
                                       !.total_duration = "final"]
            ELSE SCAN_STATE[s]]
    /\ pc' = [pc EXCEPT ![id] = "finished"]
    /\ UNCHANGED <<name, dast, cleanup_i, docker, calls, cancel_pc,
                   cancel_loc>>

set_finished(id) ==
    /\ pc[id] = "finished"
    /\ SCAN_STATE' = SetField(id, "current", "finished")
    /\ pc' = [pc EXCEPT ![id] = "cleanup"]
    /\ cleanup_i' = [cleanup_i EXCEPT ![id] = 1]
    /\ UNCHANGED <<name, dast, docker, calls, cancel_pc, cancel_loc>>

\* run_pipeline's closing cleanup_scan(scan_id), one list position a step.
pipeline_cleanup(id) ==
    /\ pc[id] = "cleanup"
    /\ IF cleanup_i[id] <= Len(SCAN_STATE[id].containers)
       THEN /\ CleanupRemove(id, cleanup_i[id])
            /\ cleanup_i' = [cleanup_i EXCEPT ![id] = @ + 1]
            /\ pc' = pc
       ELSE /\ pc' = [pc EXCEPT ![id] = "done"]
            /\ cleanup_i' = [cleanup_i EXCEPT ![id] = 0]
            /\ docker' = docker
    /\ UNCHANGED <<SCAN_STATE, name, dast, calls, cancel_pc, cancel_loc>>

\* ------------------------------------------------------------------- cancel
\* What cancel(scan_id) returns: it depends on the registry's keys alone.
CancelResponse(id) ==
    IF Known(id) THEN [status |-> "cancelled"] ELSE [error |-> "Not found"]

\* A cancel that flips the flag: `cancelled = not cancelled`.
cancel_begin_toggles(id) ==
    /\ cancel_pc[id] = "idle"
    /\ Known(id)
    /\ SCAN_STATE' = SetField(id, "cancelled", ~SCAN_STATE[id].cancelled)
    /\ cancel_pc' = [cancel_pc EXCEPT ![id] = "cleanup"]
    /\ cancel_loc' = [cancel_loc EXCEPT ![id] =
           [i |-> 1, n |-> Len(SCAN_STATE[id].containers), tried |-> {}]]
    /\ UNCHANGED <<pc, name, dast, cleanup_i, docker, calls>>

\* `if scan_id in SCAN_STATE: SCAN_STATE[scan_id]["cancelled"] = True`. A
\* cancel of an unknown id returns {"error": "Not found"} and changes nothing.
cancel_begin(id) ==
    /\ cancel_pc[id] = "idle"
    /\ Known(id)
    /\ SCAN_STATE' = SetField(id, "cancelled", TRUE)
    /\ cancel_pc' = [cancel_pc EXCEPT ![id] = "cleanup"]
    /\ cancel_loc' = [cancel_loc EXCEPT ![id] =
           [i |-> 1, n |-> Len(SCAN_STATE[id].containers), tried |-> {}]]
    /\ UNCHANGED <<pc, name, dast, cleanup_i, docker, calls>>

\* cancel_cleanup that leaves the loop without removing anything.
cancel_cleanup_skipped(id) ==
    /\ cancel_pc[id] = "cleanup"
    /\ cancel_pc' = [cancel_pc EXCEPT ![id] = "set_current"]
    /\ UNCHANGED <<SCAN_STATE, pc, name, dast, cleanup_i, docker, calls,
                   cancel_loc>>

\* cancel's cleanup_scan(scan_id), one list position a step.
cancel_cleanup(id) ==
    /\ cancel_pc[id] = "cleanup"
    /\ LET i == cancel_loc[id].i
       IN IF i <= Len(SCAN_STATE[id].containers)
          THEN /\ CleanupRemove(id, i)
               /\ cancel_loc' = [cancel_loc EXCEPT
                     ![id].i = i + 1,
                     ![id].tried = @ \cup {SCAN_STATE[id].containers[i]}]
               /\ cancel_pc' = cancel_pc
          ELSE /\ cancel_pc' = [cancel_pc EXCEPT ![id] = "set_current"]
               /\ UNCHANGED <<docker, cancel_loc>>
    /\ UNCHANGED <<SCAN_STATE, pc, name, dast, cleanup_i, calls>>

\* SCAN_STATE[scan_id]["current"] = "cancelled"; return {"status": "cancelled"}
cancel_return(id) ==
    /\ cancel_pc[id] = "set_current"
    /\ SCAN_STATE' = SetField(id, "current", "cancelled")
    /\ cancel_pc' = [cancel_pc EXCEPT ![id] = "idle"]
    /\ cancel_loc' = [cancel_loc EXCEPT ![id] = CancelIdle]
    /\ UNCHANGED <<pc, name, dast, cleanup_i, docker, calls>>

\* ------------------------------------------------------------------- status
\* response_data = scan_data.copy() is a shallow copy: response_data["steps"]
\* is the stored dict, so the duration written for a running step is written
\* to SCAN_STATE; total_duration is written to the copy alone.
status(id) ==
    /\ Known(id)
    /\ SCAN_STATE' =
         [s \in DOMAIN SCAN_STATE |->
            IF s = id
            THEN [SCAN_STATE[s] EXCEPT !.steps =
                    [n \in StepNames |->
                       IF @[n].status = "running" /\ @[n].start_time # "None"
                       THEN [@[n] EXCEPT !.duration = "elapsed"]
                       ELSE @[n]]]
            ELSE SCAN_STATE[s]]
    /\ UNCHANGED <<pc, name, dast, cleanup_i, docker, calls, cancel_pc,
                   cancel_loc>>

\* ----------------------------------------------------------------- run_dast
\* The end of one iteration of `for idx, target_path in enumerate(targets, 1)`:
\* the next target, or `return results` into run_step. `exposed` and
\* `detected_port` are assigned anew in an iteration before they are read;
\* `container` keeps its binding.
NextTarget(id, d) ==
    IF d.idx < d.targets
    THEN /\ dast' = [dast EXCEPT ![id] =
                [d EXCEPT !.idx = d.idx + 1, !.exposed = "unset",
                          !.detected_port = 0, !.attempt = 0]]
         /\ pc' = [pc EXCEPT ![id] = "build"]
    ELSE /\ dast' = [dast EXCEPT ![id] = d]
         /\ pc' = [pc EXCEPT ![id] = "update"]

\* The handler as it would be if it rebound the whole dict:
\* `results = {label: {"error": str(e)}}`.
ExceptRebindsResults(id) ==
    /\ dast' = [dast EXCEPT ![id].results =
                  [t \in Targets |-> IF t = dast[id].idx
                                     THEN [kind |-> "error"] ELSE Unset]]
    /\ pc' = [pc EXCEPT ![id] = "except_remove_container"]

\* `except Exception as e: results[label] = {"error": str(e)}`
Except(id) ==
    /\ dast' = [dast EXCEPT ![id].results[dast[id].idx] = [kind |-> "error"]]
    /\ pc' = [pc EXCEPT ![id] = "except_remove_container"]

\* run_dast on a project in which detect_all_targets finds n Dockerfile
\* directories; none returns at once.
dast_targets(id, n) ==
    /\ pc[id] = "exec"
    /\ name[id] = "dast"
    /\ IF n = 0
       THEN /\ pc' = [pc EXCEPT ![id] = "update"]
            /\ dast' = [dast EXCEPT ![id] = DastLocals]
       ELSE /\ pc' = [pc EXCEPT ![id] = "build"]
            /\ dast' = [dast EXCEPT ![id] =
                          [DastLocals EXCEPT !.targets = n, !.idx = 1]]
    /\ UNCHANGED <<SCAN_STATE, name, cleanup_i, docker, calls, cancel_pc,
                   cancel_loc>>

\* detect_all_targets, env discovery.
dast_begin(id) == \E n \in 0..MaxTargets : dast_targets(id, n)

\* docker_client.images.build(path=target_path, tag=image_tag)
build(id) ==
    /\ pc[id] = "build"
    /\ \/ /\ docker' = [docker EXCEPT ![id].images[dast[id].idx] = "built"]
          /\ pc' = [pc EXCEPT ![id] = "run"]
          /\ dast' = dast
       \/ /\ Except(id)
          /\ docker' = docker
    /\ UNCHANGED <<SCAN_STATE, name, cleanup_i, calls, cancel_pc, cancel_loc>>

\* container = docker_client.containers.run(image_tag, name=..., detach=True)
run(id) ==
    /\ pc[id] = "run"
    /\ \/ /\ docker' = [docker EXCEPT ![id].containers[dast[id].idx] = "running"]
          /\ dast' = [dast EXCEPT ![id].container = dast[id].idx]
          /\ pc' = [pc EXCEPT ![id] = "append"]
       \/ /\ Except(id)
          /\ docker' = docker
    /\ UNCHANGED <<SCAN_STATE, name, cleanup_i, calls, cancel_pc, cancel_loc>>

\* SCAN_STATE[scan_id]["containers"].append(container_name)
append(id) ==
    /\ pc[id] = "append"
    /\ SCAN_STATE' = SetField(id, "containers",
                              Append(SCAN_STATE[id].containers, dast[id].idx))
    /\ pc' = [pc EXCEPT ![id] = "reload"]
    /\ UNCHANGED <<name, dast, cleanup_i, docker, calls, cancel_pc,
                   cancel_loc>>

\* reload without the `if not exposed` branch: every target is probed.
reload_always_probes(id) ==
    /\ pc[id] = "reload"
    /\ \/ /\ Exists(docker[id].containers[dast[id].idx])
          /\ \E e \in {"none", "ports"} :
               /\ dast' = [dast EXCEPT ![id].exposed = e]
               /\ pc' = [pc EXCEPT ![id] = "probe"]
       \/ Except(id)
    /\ UNCHANGED <<SCAN_STATE, name, cleanup_i, docker, calls, cancel_pc,
                   cancel_loc>>

\* time.sleep(5); container.reload(); exposed = ...get("ExposedPorts") and the
\* branch on it. reload raises NotFound for a container that is gone, and
\* may raise on a daemon error.
reload(id) ==
    /\ pc[id] = "reload"
    /\ \/ /\ Exists(docker[id].containers[dast[id].idx])
          /\ \E e \in {"none", "ports"} :
               /\ dast' = [dast EXCEPT ![id].exposed = e]
               /\ pc' = [pc EXCEPT ![id] =
                           IF e = "none" THEN "non_http" ELSE "probe"]
       \/ Except(id)
    /\ UNCHANGED <<SCAN_STATE, name, cleanup_i, docker, calls, cancel_pc,
                   cancel_loc>>

\* results[label] = {"info": "Non-HTTP service detected", "logs": ...};
\* container.logs() raises when the container is gone or the daemon fails.
non_http(id) ==
    /\ pc[id] = "non_http"
    /\ \/ /\ Exists(docker[id].containers[dast[id].idx])
          /\ dast' = [dast EXCEPT ![id].results[dast[id].idx] =
                        [kind |-> "non_http", logs |-> TRUE]]
          /\ pc' = [pc EXCEPT ![id] = "remove_container"]
       \/ Except(id)
    /\ UNCHANGED <<SCAN_STATE, name, cleanup_i, docker, calls, cancel_pc,
                   cancel_loc>>

\* The ports a target's service may be listening on at one probe pass.
ListenSets == {{}, {3000, 8000}}

\* The inner `for p in COMMON_WEB_PORTS` with its break: the first port of
\* the list that accepts a connection, 0 (detected_port = None) when none does.
RECURSIVE FirstOpen(_, _)
FirstOpen(ports, listening) ==
    IF ports = <<>> THEN 0
    ELSE IF Head(ports) \in listening THEN Head(ports)
    ELSE FirstOpen(Tail(ports), listening)

\* What one pass detects: only a running container accepts connections.
Connect(id) ==
    IF docker[id].containers[dast[id].idx] = "running"
    THEN {FirstOpen(COMMON_WEB_PORTS, l) : l \in ListenSets}
    ELSE {0}

\* One pass of `for _ in range(30)`: try every port, stop at the first that
\* connects, else sleep and go on; after the last pass, the branch on
\* detected_port. attempt counts the passes made; the loop's iterator is
\* gone once the loop is left.
probe(id) ==
    /\ pc[id] = "probe"
    /\ \E p \in Connect(id) :
         IF p # 0
         THEN /\ dast' = [dast EXCEPT ![id].detected_port = p,
                                      ![id].attempt = 0]
              /\ pc' = [pc EXCEPT ![id] = "zap_run"]
         ELSE IF dast[id].attempt + 1 < ProbeAttempts
         THEN /\ dast' = [dast EXCEPT ![id].attempt = @ + 1]
              /\ pc' = pc
         ELSE /\ dast' = [dast EXCEPT ![id].attempt = 0]
              /\ pc' = [pc EXCEPT ![id] = "unreachable"]
    /\ UNCHANGED <<SCAN_STATE, name, cleanup_i, docker, calls, cancel_pc,
                   cancel_loc>>

\* results[label] = {"error": "Service did not become reachable", "logs": ...}
unreachable(id) ==
    /\ pc[id] = "unreachable"
    /\ \/ /\ Exists(docker[id].containers[dast[id].idx])
          /\ dast' = [dast EXCEPT ![id].results[dast[id].idx] =
                        [kind |-> "unreachable", logs |-> TRUE]]
          /\ pc' = [pc EXCEPT ![id] = "remove_container"]
       \/ Except(id)
    /\ UNCHANGED <<SCAN_STATE, name, cleanup_i, docker, calls, cancel_pc,
                   cancel_loc>>

\* zap = docker_client.containers.run("owasp/zap2docker-stable", ..., detach=True)
zap_run(id) ==
    /\ pc[id] = "zap_run"
    /\ calls' = [calls EXCEPT ![id].zap_run[dast[id].idx] = @ + 1]
    /\ \/ /\ docker' = [docker EXCEPT ![id].zap[dast[id].idx] = "running"]
          /\ pc' = [pc EXCEPT ![id] = "zap_wait"]
          /\ dast' = dast
       \/ /\ Except(id)
          /\ docker' = docker
    /\ UNCHANGED <<SCAN_STATE, name, cleanup_i, cancel_pc, cancel_loc>>

\* zap.wait(timeout=SCAN_TIMEOUT): the scanner exits, or the wait times out
\* and raises; the ZAP container stays until it is removed either way.
zap_wait(id) ==
    /\ pc[id] = "zap_wait"
    /\ \/ /\ pc' = [pc EXCEPT ![id] = "zap_report"]
          /\ dast' = dast
       \/ Except(id)
    /\ docker' = docker
    /\ UNCHANGED <<SCAN_STATE, name, cleanup_i, calls, cancel_pc, cancel_loc>>

\* report.json as ZAP writes it for a target with one alert of high risk:
\* {"site": [{"alerts": [{"riskdesc": "High (Medium)"}]}]}.
ZapReport == Doc(<<>>, <<>>, << <<"High (Medium)">> >>)

\* zap.logs(), json.load of report.json (raises on a malformed report) and
\* results[label] = {"port": ..., "zap_logs": ..., "report": ...}
zap_report(id) ==
    /\ pc[id] = "zap_report"
    /\ \/ /\ dast' = [dast EXCEPT ![id].results[dast[id].idx] =
                        [kind |-> "scan", port |-> dast[id].detected_port,
                         report |-> ZapReport]]
          /\ pc' = [pc EXCEPT ![id] = "zap_remove"]
       \/ Except(id)
    /\ UNCHANGED <<SCAN_STATE, name, cleanup_i, docker, calls, cancel_pc,
                   cancel_loc>>

\* zap.remove(force=True)
zap_remove(id) ==
    /\ pc[id] = "zap_remove"
    /\ docker' = [docker EXCEPT ![id].zap[dast[id].idx] = "removed"]
    /\ pc' = [pc EXCEPT ![id] = "remove_container"]
    /\ dast' = dast
    /\ UNCHANGED <<SCAN_STATE, name, cleanup_i, calls, cancel_pc, cancel_loc>>

\* container.remove(force=True) of the three paths that end in `continue` or
\* fall out of the try block: it removes the container, or raises NotFound
\* when the container is gone.
remove_container(id) ==
    /\ pc[id] = "remove_container"
    /\ calls' = [calls EXCEPT ![id].ctr_rm[dast[id].container] = @ + 1]
    /\ IF Exists(docker[id].containers[dast[id].container])
       THEN /\ docker' = [docker EXCEPT
                            ![id].containers[dast[id].container] = "removed"]
            /\ pc' = [pc EXCEPT ![id] = "remove_image"]
            /\ dast' = dast
       ELSE /\ Except(id)
            /\ docker' = docker
    /\ UNCHANGED <<SCAN_STATE, name, cleanup_i, cancel_pc, cancel_loc>>

\* docker_client.images.remove(image_tag, force=True), then the next target;
\* ImageNotFound when the image is gone.
remove_image(id) ==
    /\ pc[id] = "remove_image"
    /\ calls' = [calls EXCEPT ![id].img_rm[dast[id].idx] = @ + 1]
    /\ IF docker[id].images[dast[id].idx] = "built"
       THEN /\ docker' = [docker EXCEPT ![id].images[dast[id].idx] = "removed"]
            /\ NextTarget(id, dast[id])
       ELSE /\ Except(id)
            /\ docker' = docker
    /\ UNCHANGED <<SCAN_STATE, name, cleanup_i, cancel_pc, cancel_loc>>

\* The handler's `try: container.remove(force=True)`. `container` is whatever
\* the name is bound to: unbound (NameError) when no target has been launched
\* yet, an earlier target's container when this target's launch did not
\* happen. Any error goes to `except: pass` and skips the image removal.
except_remove_container(id) ==
    /\ pc[id] = "except_remove_container"
    /\ LET c == dast[id].container
       IN IF c = 0
          THEN /\ NextTarget(id, dast[id])
               /\ UNCHANGED <<docker, calls>>
          ELSE /\ calls' = [calls EXCEPT ![id].ctr_rm[c] = @ + 1]
               /\ IF Exists(docker[id].containers[c])
                  THEN /\ docker' = [docker EXCEPT ![id].containers[c] = "removed"]
                       /\ pc' = [pc EXCEPT ![id] = "except_remove_image"]
                       /\ dast' = dast
                  ELSE /\ NextTarget(id, dast[id])
                       /\ docker' = docker
    /\ UNCHANGED <<SCAN_STATE, name, cleanup_i, cancel_pc, cancel_loc>>

\* The handler's docker_client.images.remove(image_tag, force=True).
except_remove_image(id) ==
    /\ pc[id] = "except_remove_image"
    /\ calls' = [calls EXCEPT ![id].img_rm[dast[id].idx] = @ + 1]
    /\ IF docker[id].images[dast[id].idx] = "built"
       THEN docker' = [docker EXCEPT ![id].images[dast[id].idx] = "removed"]
       ELSE docker' = docker
    /\ NextTarget(id, dast[id])
    /\ UNCHANGED <<SCAN_STATE, name, cleanup_i, cancel_pc, cancel_loc>>

\* run_dast returns: {"error": "No Dockerfile found"} or the results dict.
DastResult(d) == [type |-> "dast", targets |-> d.targets, results |-> d.results]

\* run_step's update once run_dast has returned.
run_step_done(id) ==
    /\ pc[id] = "update"
    /\ SCAN_STATE' = SetStep(id, name[id], StepDone(id, DastResult(dast[id])))
    /\ pc' = [pc EXCEPT ![id] = "progress"]
    /\ UNCHANGED <<name, dast, cleanup_i, docker, calls, cancel_pc,
                   cancel_loc>>

\* --------------------------------------------------------------------- Next
Worker(id) ==
    \/ extract(id) \/ run_step_begin(id) \/ static_step(id)
    \/ dast_begin(id) \/ build(id) \/ run(id) \/ append(id) \/ reload(id)
    \/ non_http(id) \/ probe(id) \/ unreachable(id)
    \/ zap_run(id) \/ zap_wait(id) \/ zap_report(id) \/ zap_remove(id)
    \/ remove_container(id) \/ remove_image(id)
    \/ except_remove_container(id) \/ except_remove_image(id)
    \/ run_step_done(id) \/ set_progress(id)
    \/ set_score(id) \/ set_end_time(id) \/ set_finished(id)
    \/ pipeline_cleanup(id)

Next ==
    \E id \in ScanIds :
        \/ start_scan(id)
        \/ Worker(id)
        \/ cancel_begin(id) \/ cancel_cleanup(id) \/ cancel_return(id)
        \/ status(id)
        \/ ContainerExits(id)

Spec == Init /\ [][Next]_vars

\* ------------------------------------------------------------ two sessions
\* Two uploads of projects without a Dockerfile, each with its own worker
\* thread, cancelled and polled at any time.
TwoIds == {"s1", "s2"}

InitTwo ==
    /\ SCAN_STATE = <<>>
    /\ pc = [id \in TwoIds |-> "none"]
    /\ name = [id \in TwoIds |-> "none"]
    /\ dast = [id \in TwoIds |-> DastLocals]
    /\ cleanup_i = [id \in TwoIds |-> 0]
    /\ docker = [id \in TwoIds |-> DockerEmpty]
    /\ calls = [id \in TwoIds |-> NoCalls]
    /\ cancel_pc = [id \in TwoIds |-> "idle"]
    /\ cancel_loc = [id \in TwoIds |-> CancelIdle]

WorkerNoTarget(id) ==
    \/ extract(id) \/ run_step_begin(id) \/ static_step(id)
    \/ dast_targets(id, 0)
    \/ run_step_done(id) \/ set_progress(id)
    \/ set_score(id) \/ set_end_time(id) \/ set_finished(id)
    \/ pipeline_cleanup(id)

NextTwo ==
    \E id \in TwoIds :
        \/ start_scan(id)
        \/ WorkerNoTarget(id)
        \/ cancel_begin(id) \/ cancel_cleanup(id) \/ cancel_return(id)
        \/ status(id)

SpecTwo == InitTwo /\ [][NextTwo]_vars

\* ------------------------------------------------- the scoring, on its own
\* Documents a static tool may print: nothing; two high findings; a medium, a
\* low and an undefined one; findings under "Matches", one without severity;
\* a ZAP-shaped document; enough high findings to pass 100 points; a document
\* with both "results" and "Matches".
ScoreDocs ==
    {EmptyDoc,
     Doc(<<"HIGH", "HIGH">>, <<>>, <<>>),
     Doc(<<"MEDIUM", "LOW", "UNDEFINED">>, <<>>, <<>>),
     Doc(<<>>, <<"LOW", "LOW", "">>, <<>>),
     Doc(<<>>, <<>>, << <<"High (Medium)">>, <<"Low (High)", "Medium (Low)">> >>),
     Doc(<<"HIGH", "HIGH", "HIGH", "HIGH", "HIGH", "HIGH", "HIGH", "HIGH",
           "HIGH", "HIGH", "HIGH">>, <<>>, <<>>),
     Doc(<<"LOW">>, <<"HIGH">>, <<>>)}

\* What run_dast may have returned: no target, or one scanned target.
ScoreDastResults ==
    {DastResult(DastLocals),
     DastResult([DastLocals EXCEPT
                    !.targets = 1, !.idx = 1,
                    !.results[1] = [kind |-> "scan", port |-> 8000,
                                    report |-> ZapReport]])}

\* The sessions at the call `compute_security_score(...["steps"])` of
\* run_pipeline: every step done, with any of the documents as its result.
InitScore ==
    /\ \E b \in ScoreDocs, g \in ScoreDocs, t \in ScoreDocs,
          z \in ScoreDastResults :
         LET done(r) == [status |-> "done", start_time |-> "set",
                         duration |-> "final", result |-> r]
         IN SCAN_STATE = [id \in ScanIds |->
                [init_scan EXCEPT
                    !.current = "dast", !.progress = 100,
                    !.steps = [n \in StepNames |->
                        CASE n = "bandit" -> done(b)
                          [] n = "gitleaks" -> done(g)
                          [] n = "trivy" -> done(t)
                          [] OTHER -> done(z)]]]
    /\ pc = [id \in ScanIds |-> "score"]
    /\ name = [id \in ScanIds |-> "dast"]
    /\ dast = [id \in ScanIds |-> DastLocals]
    /\ cleanup_i = [id \in ScanIds |-> 0]
    /\ docker = [id \in ScanIds |-> DockerEmpty]
    /\ calls = [id \in ScanIds |-> NoCalls]
    /\ cancel_pc = [id \in ScanIds |-> "idle"]
    /\ cancel_loc = [id \in ScanIds |-> CancelIdle]

NextScore == \E id \in ScanIds : set_score(id)

SpecScore == InitScore /\ [][NextScore]_vars

\* =================================================================== claims
Session(id) == SCAN_STATE[id]
Sessions == DOMAIN SCAN_STATE

\* The handles a session tracked at positions 1..n of its "containers" list.
Tracked(id, n) == {Session(id).containers[k] : k \in 1..n}

\* C1: whenever cancel(id) returns, at whatever point the worker is, the
\* cancellation flag is set, remove(force=True) has been called for each of
\* the N handles the session tracked when cancel was invoked, and the phase
\* is "cancelled".
C1_CancelTearsDownAll ==
    [][\A id \in ScanIds :
        (cancel_pc[id] = "set_current" /\ cancel_pc'[id] = "idle") =>
            /\ SCAN_STATE'[id].cancelled
            /\ SCAN_STATE'[id].current = "cancelled"
            /\ Tracked(id, cancel_loc[id].n) \subseteq cancel_loc[id].tried]_vars

\* A cancel invoked with two tracked handles, about to return in the middle
\* of the dast step's probing of the second target.
C1_Witness ==
    \E id \in ScanIds :
        /\ cancel_pc[id] = "set_current"
        /\ cancel_loc[id].n = 2
        /\ pc[id] = "probe"
        /\ Session(id).steps["dast"].status = "running"

\* C2 (as claimed): once the cancellation flag is set, no step that is not
\* running becomes "running".
C2_NoStepStartsAfterCancel ==
    [][\A id \in Sessions :
        Session(id).cancelled =>
            \A n \in StepNames :
                SCAN_STATE'[id].steps[n].status = "running"
                    => Session(id).steps[n].status = "running"]_vars

\* The static step whose executor raised: the worker thread has ended on the
\* exception while inside that step.
RaisedIn(id, n) == pc[id] = "raised" /\ name[id] = n

\* C3 (as claimed): when a static step's executor has raised, the dast step
\* is "skipped".
C3_FailedStaticSkipsDast ==
    \A id \in Sessions :
        (\E n \in StaticSteps : RaisedIn(id, n))
            => Session(id).steps["dast"].status = "skipped"

\* C4 (as claimed): in every state the score is set if and only if the phase
\* is "finished".
C4_ScoreIffFinished ==
    \A id \in Sessions :
        (Session(id).score # NoScore) <=> (Session(id).current = "finished")

\* C5: a session's progress starts at 0 and no step of the worker, cancel or
\* poll lowers it; when it changes it moves to the next checkpoint of 25, 50,
\* 75, 100, and the step that checkpoint belongs to is done.
C5_ProgressMonotonic ==
    [][\A id \in DOMAIN SCAN_STATE' :
        IF id \notin Sessions
        THEN SCAN_STATE'[id].progress = 0
        ELSE LET p == Session(id).progress
                 q == SCAN_STATE'[id].progress
             IN /\ q >= p
                /\ q # p =>
                     /\ q = p + 25
                     /\ q \in {25, 50, 75, 100}
                     /\ Session(id).steps[Steps[q \div 25]].status = "done"]_vars

\* A cancelled and polled session whose progress has reached 100.
C5_Witness ==
    \E id \in Sessions :
        /\ Session(id).progress = 100
        /\ Session(id).cancelled
        /\ Session(id).steps["dast"].duration = "final"

\* C6 (as claimed): once a step's executor has raised, that step is "failed"
\* with its duration recorded, and no step is left "running".
C6_RaisedStepMarkedFailed ==
    \A id \in Sessions :
        \A n \in StepNames :
            RaisedIn(id, n) =>
                /\ Session(id).steps[n].status = "failed"
                /\ Session(id).steps[n].duration = "final"
                /\ \A m \in StepNames : Session(id).steps[m].status # "running"

\* The worker's positions after run_dast has returned.
AfterDast == {"update", "progress", "score", "end_time", "finished",
              "cleanup", "done"}

\* The iteration of run_dast's loop for target t is over.
IterationEnded(id, t) ==
    /\ t <= dast[id].targets
    /\ \/ t < dast[id].idx
       \/ pc[id] \in AfterDast

\* C7 (as claimed): for every target whose iteration is over, the removal of
\* its own container and of its own image has each been executed exactly
\* once, and no exception has left run_dast.
C7_TeardownExactlyOnce ==
    \A id \in Sessions :
        /\ ~RaisedIn(id, "dast")
        /\ \A t \in Targets :
             IterationEnded(id, t) =>
                 /\ calls[id].ctr_rm[t] = 1
                 /\ calls[id].img_rm[t] = 1

\* A container or image of the session exists in the Docker daemon.
Live(id) ==
    \E t \in Targets :
        \/ Exists(docker[id].containers[t])
        \/ docker[id].images[t] = "built"
        \/ Exists(docker[id].zap[t])

\* C8 (as claimed): while the phase is "finished" or "cancelled", no
\* container or image created for the session is live.
C8_NothingLiveWhenTerminal ==
    \A id \in Sessions :
        Session(id).current \in {"finished", "cancelled"} => ~Live(id)

\* C9 (as claimed): a probe pass made while the target's container has exited
\* is the last one: the loop is left at that pass.
C9_ExitEndsProbing ==
    [][\A id \in ScanIds :
        (/\ pc[id] = "probe"
         /\ docker[id].containers[dast[id].idx] = "exited"
         /\ dast'[id] # dast[id])
            => pc'[id] # "probe"]_vars

C11_TargetsIsolated ==
    [][\A id \in ScanIds :
        /\ \A t \in Targets :
             dast'[id].results[t] # dast[id].results[t]
                 => /\ t = dast[id].idx
                    /\ dast'[id].idx = t
        /\ pc'[id] = "update" =>
             /\ dast'[id].idx = dast'[id].targets
             /\ \A t \in Targets :
                  (dast'[id].results[t] # Unset) <=> (t <= dast'[id].targets)]_vars

\* run_dast has returned after two targets: the first one failed, the second
\* one was scanned.
C11_Witness ==
    \E id \in Sessions :
        /\ pc[id] = "update"
        /\ dast[id].targets = 2
        /\ dast[id].results[1] = [kind |-> "error"]
        /\ dast[id].results[2].kind = "scan"

\* The findings compute_security_score reads from one step result.
Findings(result) ==
    IF result.type # "dict" THEN <<>>
    ELSE (IF result.results # <<>> THEN result.results ELSE result.Matches)
         \o Flatten(result.site)

\* The number of findings, over the four step results, whose severity text
\* is one of `texts`.
Counted(id, texts) ==
    LET N(n) == LET f == Findings(Session(id).steps[n].result)
                IN Cardinality({i \in DOMAIN f : f[i] \in texts})
    IN N("bandit") + N("gitleaks") + N("trivy") + N("dast")

\* C12: with h, m, l the findings counted as high, medium and low over the
\* step results, the score is max(0, 100 - (10h + 5m + 2l)): within 0..100,
\* 69 for (2, 1, 3), 100 for no counted finding; a finding with a missing or
\* unrecognised severity is in none of h, m, l.
C12_ScoreFormula ==
    \A id \in Sessions :
        LET h == Counted(id, {"HIGH", "High (Medium)", "Low (High)"})
            m == Counted(id, {"MEDIUM", "Medium (Low)"})
            l == Counted(id, {"LOW"})
            score == Session(id).score
        IN score # NoScore =>
             /\ score = Max(0, 100 - (10 * h + 5 * m + 2 * l))
             /\ score \in 0..100
             /\ (h = 2 /\ m = 1 /\ l = 3) => score = 69
             /\ (h + m + l = 0) => score = 100

\* The score of a session with two high, one medium and three low findings
\* and two findings of no recognised severity.
C12_Witness ==
    \E id \in Sessions :
        /\ Session(id).score = 69
        /\ Session(id).steps["bandit"].result = Doc(<<"HIGH", "HIGH">>, <<>>, <<>>)
        /\ Counted(id, {"UNDEFINED", ""}) = 2

\* C13 (as claimed): a poll is a pure read: the step on which status(id)
\* returns leaves the whole registry, every step's stored status, start time
\* and duration included, as it was.
C13_PollIsPureRead ==
    [][\A id \in ScanIds : status(id) => SCAN_STATE' = SCAN_STATE]_vars

\* The session as a completed cancel leaves it when the worker has not acted
\* since: flag set, phase "cancelled", every tracked container gone.
Settled(id) ==
    /\ Session(id).cancelled
    /\ Session(id).current = "cancelled"
    /\ \A c \in Tracked(id, Len(Session(id).containers)) :
         ~Exists(docker[id].containers[c])

\* C14: cancel is idempotent: from the state a completed cancel left, every
\* step of a further cancel (flag, removals of the already removed
\* containers, phase) leaves the session and the daemon as they are and the
\* call returns what the first one returned.
C14_CancelIdempotent ==
    [][\A id \in Sessions :
        (/\ Settled(id)
         /\ cancel_begin(id) \/ cancel_cleanup(id) \/ cancel_return(id))
            => /\ SCAN_STATE'[id] = SCAN_STATE[id]
               /\ docker'[id] = docker[id]
               /\ CancelResponse(id)' = [status |-> "cancelled"]]_vars

\* A second cancel about to return, having gone through two tracked
\* containers that the first cancel had removed.
C14_Witness ==
    \E id \in Sessions :
        /\ Settled(id)
        /\ cancel_pc[id] = "set_current"
        /\ Cardinality(cancel_loc[id].tried) = 2

\* C15 (as claimed): a session's worker ends only with the session in a
\* terminal phase and with no step "running": once the thread is over,
\* having run through or having ended on an exception, the phase is
\* "finished", "failed" or "cancelled" and no step's status is "running".
C15_WorkerEndsTerminal ==
    \A id \in Sessions :
        pc[id] \in {"raised", "done"} =>
            /\ Session(id).current \in {"finished", "failed", "cancelled"}
            /\ \A n \in StepNames : Session(id).steps[n].status # "running"

\* The steps of a session whose status is "running".
Running(id) == {n \in StepNames : Session(id).steps[n].status = "running"}

\* C16: the steps run strictly in the order bandit, gitleaks, trivy, dast: at
\* most one step is "running", and a step is "running" or "done" only if
\* every step before it in that order is "done".
C16_StrictOrder ==
    \A id \in Sessions :
        /\ Cardinality(Running(id)) <= 1
        /\ \A i \in 1..Len(Steps) :
             Session(id).steps[Steps[i]].status \in {"running", "done"} =>
                 \A j \in 1..(i - 1) : Session(id).steps[Steps[j]].status = "done"

\* The dast step running, on its second target, in a session that has been
\* polled and cancelled.
C16_Witness ==
    \E id \in Sessions :
        /\ Running(id) = {"dast"}
        /\ dast[id].idx = 2
        /\ Session(id).steps["dast"].duration = "elapsed"
        /\ Session(id).current = "cancelled"

ZapAlerts(id, texts) ==
    LET r == Session(id).steps["dast"].result
        alerts(t) == Flatten(r.results[t].report.site)
    IN IF r.type # "dast" THEN {}
       ELSE UNION {{<<t, i>> : i \in {j \in DOMAIN alerts(t) : alerts(t)[j] \in texts}} :
                      t \in {u \in 1..r.targets : r.results[u].kind = "scan"}}

\* C18 (as claimed): the score counts every high, medium and low alert of
\* ZAP's report of every dast target along with the findings of the other
\* step results: it is max(0, 100 - (10h + 5m + 2l)) with the alerts in h, m
\* and l, so lower than without them while above 0.
C18_ZapAlertsCounted ==
    \A id \in Sessions :
        LET h == Counted(id, {"HIGH", "High (Medium)", "Low (High)"})
                 + Cardinality(ZapAlerts(id, {"High (Medium)", "Low (High)"}))
            m == Counted(id, {"MEDIUM", "Medium (Low)"})
                 + Cardinality(ZapAlerts(id, {"Medium (Low)"}))
            l == Counted(id, {"LOW"})
        IN Session(id).score # NoScore =>
             Session(id).score = Max(0, 100 - (10 * h + 5 * m + 2 * l))

\* C19 (as claimed): the phase "cancelled" is absorbing: once a session's
\* phase is "cancelled", no step changes it to a step name or to "finished".
C19_CancelledAbsorbing ==
    [][\A id \in Sessions :
        Session(id).current = "cancelled"
            => SCAN_STATE'[id].current \notin StepNames \cup {"finished"}]_vars

\* A cancel of the session has returned and none is in flight.
CancelReturned(id) == Session(id).cancelled /\ cancel_pc[id] = "idle"

\* C20 (as claimed): once cancel has returned, the worker builds no new image
\* and launches no new container, target or ZAP, for the session.
C20_NoLaunchAfterCancel ==
    [][\A id \in Sessions :
        CancelReturned(id) =>
            \A t \in Targets :
                /\ docker'[id].images[t] = "built" => docker[id].images[t] = "built"
                /\ Exists(docker'[id].containers[t]) => Exists(docker[id].containers[t])
                /\ Exists(docker'[id].zap[t]) => Exists(docker[id].zap[t])]_vars

====
